---- MODULE Spec2Model ----
(***************************************************************************)
(* github-commit-status-mark: a CLI that prints a glyph for the CI status  *)
(* of a git revision and caches the answer in                              *)
(* <repo-root>/.github-commit-status/cache.                                *)
(*                                                                         *)
(* The repository holds three revisions of the same program:               *)
(*   "main"    src/main.go              (everything inline in main)        *)
(*   "part000" src/unnamed/part_000     (restoreCache / storeCache)        *)
(*   "part001" src/unnamed/part_001     (restoreState / saveState,         *)
(*                                       statusConfiguration)              *)
(* The variable `variant` says which one is the installed binary.          *)
(*                                                                         *)
(* Time is counted in ticks of 1/SubSec second, so that the truncation of  *)
(* time.Now().Unix() to whole seconds is visible.                          *)
(***************************************************************************)
EXTENDS Integers, Sequences, FiniteSets, TLC

\* ------------------------------------------------------------- bounds
\* clock ticks per second
SubSec == 2
\* the clock stops advancing after MaxSeconds seconds
MaxSeconds == 41
\* status records the remote API returns for one revision
MaxStatuses == 2
\* the latest second at which a cached entry was stamped, where the validity
\* check is examined on its own
MaxStamp == 2

\* ------------------------------------------------ constants of the code
statusUnknown == ""
statusFailure == "failure"
statusPending == "pending"
statusSuccess == "success"

\* const forever = time.Duration(-1)
forever == -1
\* statusConfiguration[statusUnknown].cacheFor, in seconds
cacheForUnknown == 30
\* statusConfiguration[statusPending].cacheFor, in seconds
cacheForPending == 10

\* the glyphs: "?" , U+2717, U+25CF, U+2713
markUnknown == "?"
markFailure == "x"
markPending == "o"
markSuccess == "v"

Variants == {"main", "part000", "part001"}
Procs == {"p1", "p2"}
\* the prompts of a shell session; the shell runs the program once per prompt
Prompts == {"first", "second"}
Revs == {"abc123", "def456"}

\* the states a status record of the remote API can carry
ApiStates == {"error", "failure", "pending", "success"}
KnownStatuses == {statusUnknown, statusFailure, statusPending, statusSuccess}
Statuses == KnownStatuses \cup ApiStates

\* ------------------------------------------------------- data model
\* type revisionEntry struct { Status string; LastModified int64 }
revisionEntry(s, t) == [Status |-> s, LastModified |-> t]
\* the zero value of revisionEntry, which a Go map returns for a missing key
ZeroEntry == revisionEntry("", 0)

\* type persistentState struct { Revisions map[string]revisionEntry }
\* isnil: the Go map is nil (never allocated)
persistentState(n, m) == [isnil |-> n, Revisions |-> m]
NoRevisions == [r \in {} |-> ZeroEntry]
ZeroState == persistentState(TRUE, NoRevisions)

\* state.Revisions[rev]
Lookup(state, rev) ==
    IF rev \in DOMAIN state.Revisions THEN state.Revisions[rev] ELSE ZeroEntry

\* if state.Revisions == nil { make }; state.Revisions[rev] = entry
Put(state, rev, entry) ==
    persistentState(FALSE,
        [r \in (DOMAIN state.Revisions) \cup {rev} |->
            IF r = rev THEN entry ELSE state.Revisions[r]])

\* ------------------------------------------------------- the cache file
\* What the cache path holds:
\*   kind "nodir"  : the directory .github-commit-status does not exist
\*   kind "absent" : the directory exists, the file does not
\*   kind "noperm" : the file exists and cannot be opened (EACCES)
\*   kind "file"   : a readable, writable file with content doc
\* A document is
\*   "empty" : zero bytes (a file just created or truncated)
\*   "torn"  : a proper prefix of a JSON document
\*   "json"  : a complete JSON document {"Revisions": ...}
\* The text of a JSON document is what stands for the value of "Revisions":
\* null, or an object given as the sequence of its members in the order in
\* which they are written, each {"<key>":{"Status":..,"LastModified":..}}.
Member(k, s, t) == [key |-> k, Status |-> s, LastModified |-> t]
Text(n, ms) == [null |-> n, members |-> ms]
NoText == Text(TRUE, <<>>)
\* tail: the number of bytes that follow the document in the file, left over
\* from a longer content that was overwritten from offset 0
Doc(t, st) == [t |-> t, st |-> st, tail |-> 0]
EmptyDoc == Doc("empty", NoText)
TornDoc == Doc("torn", NoText)
Fs(k, d) == [kind |-> k, doc |-> d]

\* encoding/json writes the keys of a map in sorted order
RevOrder == <<"abc123", "def456">>

\* a variation of Encode: LastModified is left out of every member, as for a
\* field that is not exported, and reads back as 0
Encode_StampsDropped(state) ==
    LET keys == SelectSeq(RevOrder, LAMBDA r : r \in DOMAIN state.Revisions)
    IN  Doc("json",
            Text(state.isnil,
                 [i \in 1..Len(keys) |->
                    Member(keys[i], state.Revisions[keys[i]].Status, 0)]))

\* json.NewEncoder(f).Encode(&state): {"Revisions":null} for a nil map,
\* {"Revisions":{...}} with the keys sorted otherwise
Encode(state) ==
    LET keys == SelectSeq(RevOrder, LAMBDA r : r \in DOMAIN state.Revisions)
    IN  Doc("json",
            Text(state.isnil,
                 [i \in 1..Len(keys) |->
                    Member(keys[i], state.Revisions[keys[i]].Status,
                           state.Revisions[keys[i]].LastModified)]))

\* the last member of ms written under key k
LastMember(ms, k) ==
    LET i == CHOOSE j \in 1..Len(ms) :
                /\ ms[j].key = k
                /\ \A h \in (j + 1)..Len(ms) : ms[h].key # k
    IN  revisionEntry(ms[i].Status, ms[i].LastModified)

\* json.NewDecoder(f).Decode(&state) into a zero persistentState; the error is
\* dropped by every caller.  EOF and syntax errors leave the target untouched;
\* null leaves the map nil; of two members with one key the later one stays.
Decode(doc) ==
    IF doc.t # "json" \/ doc.st.null THEN ZeroState
    ELSE persistentState(FALSE,
            [k \in {doc.st.members[i].key : i \in 1..Len(doc.st.members)} |->
                LastMember(doc.st.members, k)])
\* whether Decode returned an error (which the callers ignore)
DecodeFails(doc) == doc.t # "json"

\* The length in bytes of what a file holds.  Keys are 40 hexadecimal digits
\* and stamps 10 decimal digits, so that a member
\* "<key>":{"Status":"<s>","LastModified":<t>} has 82 bytes besides its
\* status, members are separated by one comma, {"Revisions":{}} has 16 bytes
\* and {"Revisions":null} 18; Encode ends the document with a newline.  A
\* torn document is one byte here.
StatusLen(status) ==
    CASE status = "" -> 0
      [] status = "error" -> 5
      [] OTHER -> 7
RECURSIVE MembersSize(_)
MembersSize(ms) ==
    IF ms = <<>> THEN 0
    ELSE 82 + StatusLen(Head(ms).Status) + (IF Len(ms) > 1 THEN 1 ELSE 0)
            + MembersSize(Tail(ms))
Size(doc) ==
    CASE doc.t = "empty" -> 0
      [] doc.t = "torn" -> 1 + doc.tail
      [] OTHER -> (IF doc.st.null THEN 18 ELSE 16 + MembersSize(doc.st.members))
                    + 1 + doc.tail

\* write(2) of the document new at offset 0 of a file that holds old: the
\* bytes of old beyond the length of new stay in the file
Overlay(new, old) ==
    [new EXCEPT !.tail = IF Size(old) > Size(new) THEN Size(old) - Size(new) ELSE 0]

\* ------------------------------------------------------------- time
\* time.Now().Unix(): whole seconds, truncated
Unix(now) == now \div SubSec

\* the instants at which the clock is observed: the start and the tick after
\* it, the last tick before and the first tick of the end of each expiration
\* period counted from second 0, and the horizon
TimePoints ==
    {0, 1, MaxSeconds * SubSec}
    \cup {k * SubSec - j : k \in {cacheForPending, cacheForUnknown}, j \in {0, 1}}

\* ------------------------------------------------- expiration policy
\* a variation of cacheFor: "failure" is cached like an unknown status
cacheFor_FailureExpires(status) ==
    CASE status = statusFailure -> cacheForUnknown
      [] status = statusPending -> cacheForPending
      [] status = statusSuccess -> forever
      [] OTHER -> cacheForUnknown

\* statusConfiguration[status].cacheFor in seconds, with the !ok fallback to
\* statusConfiguration[statusUnknown] (part001, main lines 181-184)
cacheFor(status) ==
    CASE status = statusFailure -> forever
      [] status = statusPending -> cacheForPending
      [] status = statusSuccess -> forever
      [] OTHER -> cacheForUnknown

\* a variation of cacheExpirationSeconds: "success" is cached like "pending"
cacheExpirationSeconds_SuccessExpires(status) ==
    CASE status = statusUnknown -> cacheForUnknown
      [] status = statusFailure -> forever
      [] status = statusPending -> cacheForPending
      [] status = statusSuccess -> cacheForPending
      [] OTHER -> 0

\* cacheExpirationSeconds[status] (main, part000): a Go map lookup, 0 for a
\* missing key
cacheExpirationSeconds(status) ==
    CASE status = statusUnknown -> cacheForUnknown
      [] status = statusFailure -> forever
      [] status = statusPending -> cacheForPending
      [] status = statusSuccess -> forever
      [] OTHER -> 0

\* a variation of isValidState: !After in place of Before
isValidState_Inclusive(e, now) ==
    \/ cacheFor(e.Status) = forever
    \/ now <= (e.LastModified + cacheFor(e.Status)) * SubSec

\* part001: exp == forever || time.Now().Before(time.Unix(LastModified, 0).Add(exp))
isValidState(e, now) ==
    \/ cacheFor(e.Status) = forever
    \/ now < (e.LastModified + cacheFor(e.Status)) * SubSec

\* a variation of isValidCache: <= in place of <
isValidCache_Inclusive(e, now) ==
    \/ cacheExpirationSeconds(e.Status) = -1
    \/ Unix(now) <= e.LastModified + cacheExpirationSeconds(e.Status)

\* main, part000: expSecs == -1 || time.Now().Unix() < LastModified+expSecs
isValidCache(e, now) ==
    \/ cacheExpirationSeconds(e.Status) = -1
    \/ Unix(now) < e.LastModified + cacheExpirationSeconds(e.Status)

\* the validity check of the installed variant
isValid(v, e, now) ==
    IF v = "part001" THEN isValidState(e, now) ELSE isValidCache(e, now)

\* a variation of useCacheMain: the two ifs in the other order, so that a valid
\* entry wins over --update
useCacheMain_ValidWins(cached, update, valid) ==
    LET afterUpdate == IF update THEN FALSE ELSE cached
    IN  IF valid THEN TRUE ELSE afterUpdate

\* a variation of useCachePart: *useCache is reset before the branch, so that
\* --cached is lost
useCachePart_DropsCached(cached, update, valid) ==
    IF update THEN FALSE
    ELSE IF valid THEN TRUE ELSE FALSE

\* The value of *useCache when the branch on it is taken; it starts as the
\* --cached flag.
\* main (lines 118-125): if valid { use = true }; if update { use = false }
useCacheMain(cached, update, valid) ==
    LET afterValid == IF valid THEN TRUE ELSE cached
    IN  IF update THEN FALSE ELSE afterValid

\* part000 (166-173), part001 (186-193):
\* if update { use = false } else if valid { use = true }
useCachePart(cached, update, valid) ==
    IF update THEN FALSE
    ELSE IF valid THEN TRUE ELSE cached

useCacheFlag(v, cached, update, e, now) ==
    IF v = "main" THEN useCacheMain(cached, update, isValid(v, e, now))
    ELSE useCachePart(cached, update, isValid(v, e, now))

\* --------------------------------------------------------- rendering
\* what printStatus writes: the glyph and the colour set around it
Glyph(m, c) == [mark |-> m, color |-> c]

\* part001 printStatus: statusConfiguration[status], unknown if !ok
printStatusConf(status) ==
    CASE status = statusFailure -> Glyph(markFailure, "Red")
      [] status = statusPending -> Glyph(markPending, "Yellow")
      [] status = statusSuccess -> Glyph(markSuccess, "Green")
      [] OTHER -> Glyph(markUnknown, "None")

\* main, part000 printStatus: switch on status, then statusColors[mark]; the
\* unknown mark has no colour and is printed without a colour change
printStatusSwitch(status) ==
    CASE status = "failure" -> Glyph(markFailure, "Red")
      [] status = "pending" -> Glyph(markPending, "Yellow")
      [] status = "success" -> Glyph(markSuccess, "Green")
      [] OTHER -> Glyph(markUnknown, "None")

printStatus(v, status) ==
    IF v = "part001" THEN printStatusConf(status) ELSE printStatusSwitch(status)

\* ------------------------------------------------- identity resolver
\* A remote URL is a sequence of tokens: a scheme ("https://", "ssh://",
\* "git://"), a userinfo ("git@"), a host, ":", "/", a path segment, ".git",
\* or "%zz" (an invalid percent escape, which url.Parse rejects).
Schemes == {"https://", "ssh://", "git://"}

\* strings.Replace(s, ":", "/", 1)
RECURSIVE ReplaceFirstColon(_)
ReplaceFirstColon(u) ==
    IF u = <<>> THEN <<>>
    ELSE IF Head(u) = ":" THEN <<"/">> \o Tail(u)
    ELSE <<Head(u)>> \o ReplaceFirstColon(Tail(u))

\* strings.TrimSuffix(s, ".git")
TrimSuffixGit(u) ==
    IF u # <<>> /\ u[Len(u)] = ".git" THEN SubSeq(u, 1, Len(u) - 1) ELSE u

\* normalizeURL up to the call of url.Parse: the string handed to url.Parse
normalizeString(u) ==
    LET u1 == IF u # <<>> /\ Head(u) \in Schemes
              THEN <<"https://">> \o Tail(u) ELSE u
        u2 == IF u1 # <<>> /\ Head(u1) = "https://"
              THEN u1 ELSE <<"https://">> \o ReplaceFirstColon(u1)
    IN  TrimSuffixGit(u2)

\* index of the first "/" token at or after position i, Len(u)+1 if none
RECURSIVE FirstSlash(_, _)
FirstSlash(u, i) ==
    IF i > Len(u) THEN i
    ELSE IF u[i] = "/" THEN i ELSE FirstSlash(u, i + 1)

\* strings.Split(path, "/") on a token sequence: the text between the "/"
\* tokens, empty strings included
RECURSIVE SplitSlash(_, _)
SplitSlash(path, cur) ==
    IF path = <<>> THEN <<cur>>
    ELSE IF Head(path) = "/" THEN <<cur>> \o SplitSlash(Tail(path), "")
    ELSE SplitSlash(Tail(path), cur \o Head(path))

\* url.Parse of "https://" authority path: Host without the userinfo, Path
\* from the first "/" on; err for an invalid percent escape
urlParse(s) ==
    LET rest == Tail(s)
        cut == FirstSlash(rest, 1)
        auth == SubSeq(rest, 1, cut - 1)
        hostToks == SelectSeq(auth, LAMBDA t : t # "git@")
        path == SubSeq(rest, cut, Len(rest))
    IN  [err |-> \E i \in 1..Len(s) : s[i] = "%zz",
         Host |-> IF hostToks = <<>> THEN "" ELSE Head(hostToks),
         Path |-> path]

normalizeURL(u) == urlParse(normalizeString(u))

\* parts := strings.Split(remoteURL.Path, "/")
pathParts(url) == SplitSlash(url.Path, "")

\* the values `git config remote.origin.url` is given in the model
RemoteURLs ==
    { <<"git@", "github.com", ":", "owner", "/", "repo", ".git">>,
      <<"https://", "ghe.example.com", "/", "owner", "/", "repo">>,
      <<"ssh://", "git@", "github.com", "/", "owner">>,
      <<"https://", "github.com", "/", "owner", "/">>,
      <<"git://", "github.com", "/", "/", "repo", ".git">>,
      <<"https://", "github.com", "/", "owner", "/", "%zz">> }

\* ----------------------------------------------- credential resolver
\* A netrc file: the machine entries (name -> password) and whether it has a
\* "default" entry.  netrc.FindMachine returns the entry named `name`, else
\* the default entry (whose Name is ""), else nil.
Netrc(ex, ms, def) == [exists |-> ex, machines |-> ms, hasDefault |-> def]
NoMachine == [found |-> FALSE, Name |-> "", Password |-> ""]
FindMachine(file, name) ==
    IF name \in DOMAIN file.machines
    THEN [found |-> TRUE, Name |-> name, Password |-> file.machines[name]]
    ELSE IF file.hasDefault
    THEN [found |-> TRUE, Name |-> "", Password |-> "deftok"]
    ELSE NoMachine

\* apiHost := remoteURL.Host; if apiHost == "github.com" { "api.github.com" }
apiHostOf(host) == IF host = "github.com" THEN "api.github.com" ELSE host

\* a variation of netrcToken: the "default" entry is not ignored
netrcToken_DefaultCounts(file, host) ==
    IF ~file.exists THEN ""
    ELSE LET machine == FindMachine(file, apiHostOf(host))
         IN  IF machine.found THEN machine.Password ELSE ""

\* the .netrc step of retrieveAPIToken (part000 117-134, part001 132-149)
netrcToken(file, host) ==
    IF ~file.exists THEN ""
    ELSE LET machine == FindMachine(file, apiHostOf(host))
         IN  IF machine.found /\ machine.Name # "" THEN machine.Password ELSE ""

\* `git config --get-urlmatch github.token <url>`: exit status 1 when no value
\* is found, which runGit turns into die
GitConfig(f, v) == [found |-> f, value |-> v]

\* retrieveAPIToken (part000, part001); main reads the git configuration only
\* (line 146).  died: runGit called die.
retrieveAPIToken(v, env, file, cfg, host) ==
    LET t1 == IF v = "main" THEN "" ELSE env
        t2 == IF v # "main" /\ t1 = "" THEN netrcToken(file, host) ELSE t1
    IN  IF t2 # "" THEN [died |-> FALSE, token |-> t2]
        ELSE IF cfg.found THEN [died |-> FALSE, token |-> cfg.value]
        ELSE [died |-> TRUE, token |-> ""]

EnvTokens == {"", "envtok"}
NetrcFiles ==
    { Netrc(FALSE, <<>>, FALSE),
      Netrc(TRUE, [h \in {"api.github.com", "ghe.example.com"} |-> "netrctok"], FALSE),
      Netrc(TRUE, [h \in {"github.com"} |-> "webtok"], TRUE) }
GitConfigs == {GitConfig(FALSE, ""), GitConfig(TRUE, ""), GitConfig(TRUE, "cfgtok")}

\* --------------------------------------------------------- remote API
\* the status lists ListStatuses returns in the model, newest record first:
\* no record, or a record of any state followed by at most MaxStatuses - 1
\* older records, which are pending
ApiResults ==
    {<<>>} \cup {<<s>> \o [i \in 1..n |-> "pending"] :
                    s \in ApiStates, n \in 0..(MaxStatuses - 1)}

\* a variation of firstState: the oldest record in place of the newest
firstState_Oldest(statuses) ==
    IF Len(statuses) > 0 THEN statuses[Len(statuses)] ELSE ""

\* Status: "" ; if len(statuses) > 0 { Status = *statuses[0].State }
firstState(statuses) == IF Len(statuses) > 0 THEN statuses[1] ELSE ""

\* the API base the client addresses (part001 main 235-240)
apiBase(host) == IF host # "github.com" THEN "enterprise" ELSE "public"

\* ------------------------------------------------------ loading, saving
\* The result of loading: died (die was called), the state returned, and what
\* the cache path holds afterwards.
Loaded(d, st, f) == [died |-> d, state |-> st, fs |-> f]

\* a variation of restoreState: the error of Decode is passed to die
restoreState_DecodeFatal(f) ==
    CASE f.kind \in {"nodir", "absent"} -> Loaded(FALSE, ZeroState, f)
      [] f.kind = "noperm" -> Loaded(TRUE, ZeroState, f)
      [] OTHER -> Loaded(DecodeFails(f.doc), Decode(f.doc), f)

\* a variation of restoreState: every error of os.Open is accepted
restoreState_OpenErrorsIgnored(f) ==
    CASE f.kind \in {"nodir", "absent", "noperm"} -> Loaded(FALSE, ZeroState, f)
      [] OTHER -> Loaded(FALSE, Decode(f.doc), f)

\* part001 restoreState: os.Open; a missing file (or directory) is accepted,
\* any other error dies; the Decode error is dropped
restoreState(f) ==
    CASE f.kind \in {"nodir", "absent"} -> Loaded(FALSE, ZeroState, f)
      [] f.kind = "noperm" -> Loaded(TRUE, ZeroState, f)
      [] OTHER -> Loaded(FALSE, Decode(f.doc), f)

\* a variation of restoreCache: the file is opened with O_TRUNC as well
restoreCache_Truncates(f) ==
    CASE f.kind \in {"nodir", "noperm"} -> Loaded(TRUE, ZeroState, f)
      [] OTHER -> Loaded(FALSE, Decode(EmptyDoc), Fs("file", EmptyDoc))

\* main (109-114), part000 restoreCache: os.OpenFile(O_CREATE|O_RDWR); every
\* error dies (a missing directory is one); a missing file is created empty;
\* the Decode error is dropped
restoreCache(f) ==
    CASE f.kind \in {"nodir", "noperm"} -> Loaded(TRUE, ZeroState, f)
      [] f.kind = "absent" ->
            Loaded(FALSE, Decode(EmptyDoc), Fs("file", EmptyDoc))
      [] OTHER -> Loaded(FALSE, Decode(f.doc), f)

restore(v, f) == IF v = "part001" THEN restoreState(f) ELSE restoreCache(f)

\* The first half of saving: died, and what the cache path holds afterwards.
\* part001 saveState: os.Create, dieIf(err).
\* main (197-198), part000 storeCache: Truncate(0) and Seek on the descriptor
\* opened when loading; their errors are dropped.
Created(d, f) == [died |-> d, fs |-> f]
saveCreate(v, f) ==
    IF v = "part001"
    THEN IF f.kind \in {"nodir", "noperm"} THEN Created(TRUE, f)
         ELSE Created(FALSE, Fs("file", EmptyDoc))
    ELSE Created(FALSE, Fs("file", EmptyDoc))

\* a variation of saveEncode: the file is opened with O_APPEND, so that the
\* document is written after what the file holds
saveEncode_Appends(f, state) ==
    Fs("file", IF f.doc.t = "empty" THEN Encode(state)
               ELSE [f.doc EXCEPT !.tail = @ + Size(Encode(state))])

\* The second half: json.NewEncoder(cacheFile).Encode(&state), one write at
\* offset 0 of the descriptor, which the invocation has truncated before
saveEncode(f, state) == Fs("file", Overlay(Encode(state), f.doc))

\* ------------------------------------------------------------- state
VARIABLES
    variant,    \* which revision of the program is installed
    clock,      \* the wall clock, in ticks
    fs,         \* what the cache path holds
    runs,       \* invocations started so far
    lookedUpAt, \* per revision, the tick of its last live lookup, -1 if none
    pc,         \* where each invocation stands
    arg,        \* its flags and its resolved revision
    fs0,        \* what the cache path held when it started
    loaded,     \* the state it loaded
    state,      \* its persistentState (loaded, then updated)
    entry,      \* cachedRevisionEntry
    ident,      \* host, user, repo of the remote
    creds,      \* what retrieveAPIToken found in its environment
    token,      \* the API token
    statuses,   \* what ListStatuses returned
    thisStatus, \* the entry built from it
    queries,    \* the number of remote queries it has made
    out,        \* what it has written to standard output
    exit,       \* its exit code, -1 while it runs
    err,        \* why it died: "", "git", "open", "url", "parts", "token", "fetch",
                \* "create"
    path        \* "none", "hit" or "miss"

env == <<variant, clock, fs, runs, lookedUpAt>>
locals == <<arg, fs0, loaded, state, entry, ident, creds, token, statuses,
           thisStatus>>
observed == <<queries, out, exit, err, path>>
vars == <<variant, clock, fs, runs, lookedUpAt, pc, arg, fs0, loaded, state, entry, ident,
          creds, token, statuses, thisStatus, queries, out, exit, err, path>>

Arg(c, u, r) == [cached |-> c, update |-> u, rev |-> r]
Ident(h, u, r) == [host |-> h, user |-> u, repo |-> r]
NoIdent == Ident("", "", "")
\* the three sources of a token: GITHUB_COMMIT_STATUS_MARK_TOKEN, ~/.netrc and
\* the github.token of the git configuration
Creds(e, file, cfg) == [env |-> e, netrc |-> file, config |-> cfg]
NoCreds == Creds("", Netrc(FALSE, <<>>, FALSE), GitConfig(FALSE, ""))

\* the files the program can have left behind, and the other things the
\* cache path can hold, when the first invocation starts
InitialFs ==
    {Fs(k, EmptyDoc) : k \in {"nodir", "absent", "noperm", "file"}}
    \cup {Fs("file", TornDoc)}
    \cup {Fs("file", Encode(Put(ZeroState, "abc123", revisionEntry(s, 0)))) :
            s \in {statusSuccess, "error"}}

Init ==
    /\ variant \in Variants
    /\ clock = 0
    /\ fs \in InitialFs
    /\ runs = 0
    /\ lookedUpAt = [r \in Revs |-> -1]
    /\ pc = [p \in Procs |-> "idle"]
    /\ arg = [p \in Procs |-> Arg(FALSE, FALSE, "")]
    /\ fs0 = [p \in Procs |-> fs]
    /\ loaded = [p \in Procs |-> ZeroState]
    /\ state = [p \in Procs |-> ZeroState]
    /\ entry = [p \in Procs |-> ZeroEntry]
    /\ ident = [p \in Procs |-> NoIdent]
    /\ creds = [p \in Procs |-> NoCreds]
    /\ token = [p \in Procs |-> ""]
    /\ statuses = [p \in Procs |-> <<>>]
    /\ thisStatus = [p \in Procs |-> ZeroEntry]
    /\ queries = [p \in Procs |-> 0]
    /\ out = [p \in Procs |-> <<>>]
    /\ exit = [p \in Procs |-> -1]
    /\ err = [p \in Procs |-> ""]
    /\ path = [p \in Procs |-> "none"]

Running(p) == pc[p] \notin {"idle", "done"}

\* die(message): the message goes to standard error, os.Exit(1)
Die(p, why) ==
    /\ pc' = [pc EXCEPT ![p] = "done"]
    /\ exit' = [exit EXCEPT ![p] = 1]
    /\ err' = [err EXCEPT ![p] = why]

\* ------------------------------------------------------------ actions
\* The shell starts an invocation: flag.Parse, then targetRevision, whose
\* `git rev-parse` dies for a revision git cannot resolve.  Invocations of a
\* shell follow one another.
TargetRevision(p) ==
    /\ ~Running(p)
    /\ \A q \in Procs : ~Running(q)
    /\ runs < Cardinality(Prompts)
    /\ runs' = runs + 1
    /\ \E c \in BOOLEAN, u \in BOOLEAN, r \in Revs \cup {""} :
        /\ arg' = [arg EXCEPT ![p] = Arg(c, u, r)]
        /\ IF r = ""
           THEN Die(p, "git")
           ELSE /\ pc' = [pc EXCEPT ![p] = "load"]
                /\ exit' = [exit EXCEPT ![p] = -1]
                /\ err' = [err EXCEPT ![p] = ""]
    /\ fs0' = [fs0 EXCEPT ![p] = fs]
    /\ loaded' = [loaded EXCEPT ![p] = ZeroState]
    /\ state' = [state EXCEPT ![p] = ZeroState]
    /\ entry' = [entry EXCEPT ![p] = ZeroEntry]
    /\ ident' = [ident EXCEPT ![p] = NoIdent]
    /\ creds' = [creds EXCEPT ![p] = NoCreds]
    /\ token' = [token EXCEPT ![p] = ""]
    /\ statuses' = [statuses EXCEPT ![p] = <<>>]
    /\ thisStatus' = [thisStatus EXCEPT ![p] = ZeroEntry]
    /\ queries' = [queries EXCEPT ![p] = 0]
    /\ out' = [out EXCEPT ![p] = <<>>]
    /\ path' = [path EXCEPT ![p] = "none"]
    /\ UNCHANGED <<variant, clock, fs, lookedUpAt>>

\* state := restoreState(); cachedRevisionEntry := state.Revisions[rev]
RestoreState(p) ==
    /\ pc[p] = "load"
    /\ LET l == restore(variant, fs)
       IN  /\ fs' = l.fs
           /\ IF l.died
              THEN /\ Die(p, "open")
                   /\ UNCHANGED <<loaded, state, entry>>
              ELSE /\ loaded' = [loaded EXCEPT ![p] = l.state]
                   /\ state' = [state EXCEPT ![p] = l.state]
                   /\ entry' = [entry EXCEPT ![p] = Lookup(l.state, arg[p].rev)]
                   /\ pc' = [pc EXCEPT ![p] = "check"]
                   /\ UNCHANGED <<exit, err>>
    /\ UNCHANGED <<variant, clock, runs, lookedUpAt, arg, fs0, ident, creds, token,
                   statuses, thisStatus, queries, out, path>>

\* the choice of the path: if *useCache { printStatus(...); os.Exit(0) }
CheckCache(p) ==
    /\ pc[p] = "check"
    /\ IF useCacheFlag(variant, arg[p].cached, arg[p].update, entry[p], clock)
       THEN /\ path' = [path EXCEPT ![p] = "hit"]
            /\ out' = [out EXCEPT ![p] =
                           Append(out[p], printStatus(variant, entry[p].Status))]
            /\ exit' = [exit EXCEPT ![p] = 0]
            /\ pc' = [pc EXCEPT ![p] = "done"]
       ELSE /\ path' = [path EXCEPT ![p] = "miss"]
            /\ pc' = [pc EXCEPT ![p] = "remote"]
            /\ UNCHANGED <<out, exit>>
    /\ UNCHANGED <<env, locals, queries, err>>

\* normalizeURL(runGit("config", "remote.origin.url")), the split of its path
\* and the check of the number of parts; no remote configured is <<>> here.
\* What the environment, ~/.netrc and the git configuration hold when
\* retrieveAPIToken is called next is fixed here.
ParseRemote(p) ==
    /\ pc[p] = "remote"
    /\ \E raw \in RemoteURLs \cup {<<>>} :
        IF raw = <<>> THEN Die(p, "git") /\ UNCHANGED <<ident, creds>>
        ELSE LET remoteURL == normalizeURL(raw)
                 parts == pathParts(remoteURL)
             IN  IF remoteURL.err THEN Die(p, "url") /\ UNCHANGED <<ident, creds>>
                 ELSE IF Len(parts) < 3
                 THEN Die(p, "parts") /\ UNCHANGED <<ident, creds>>
                 ELSE /\ ident' = [ident EXCEPT ![p] =
                                      Ident(remoteURL.Host, parts[2], parts[3])]
                      /\ \E e \in EnvTokens, file \in NetrcFiles, cfg \in GitConfigs :
                            creds' = [creds EXCEPT ![p] = Creds(e, file, cfg)]
                      /\ pc' = [pc EXCEPT ![p] = "token"]
                      /\ UNCHANGED <<exit, err>>
    /\ UNCHANGED <<env, arg, fs0, loaded, state, entry, token, statuses,
                   thisStatus, queries, out, path>>

\* token := retrieveAPIToken(remoteURL); the sources are not read again
RetrieveAPIToken(p) ==
    /\ pc[p] = "token"
    /\ LET r == retrieveAPIToken(variant, creds[p].env, creds[p].netrc,
                                 creds[p].config, ident[p].host)
       IN  IF r.died THEN Die(p, "token") /\ UNCHANGED <<token, creds>>
           ELSE /\ token' = [token EXCEPT ![p] = r.token]
                /\ creds' = [creds EXCEPT ![p] = NoCreds]
                /\ pc' = [pc EXCEPT ![p] = "query"]
                /\ UNCHANGED <<exit, err>>
    /\ UNCHANGED <<env, arg, fs0, loaded, state, entry, ident, statuses,
                   thisStatus, queries, out, path>>

\* client.Repositories.ListStatuses(user, repo, rev, nil), then the entry
\* built from its answer and time.Now().Unix().  ident and token are not read
\* again and are dropped.
ListStatuses(p) ==
    /\ pc[p] = "query"
    /\ queries' = [queries EXCEPT ![p] = queries[p] + 1]
    /\ ident' = [ident EXCEPT ![p] = NoIdent]
    /\ token' = [token EXCEPT ![p] = ""]
    /\ \/ /\ Die(p, "fetch")
          /\ UNCHANGED <<statuses, thisStatus, lookedUpAt>>
       \/ \E res \in ApiResults :
            /\ statuses' = [statuses EXCEPT ![p] = res]
            /\ thisStatus' = [thisStatus EXCEPT ![p] =
                                 revisionEntry(firstState(res), Unix(clock))]
            /\ pc' = [pc EXCEPT ![p] = "print"]
            /\ lookedUpAt' = [lookedUpAt EXCEPT ![arg[p].rev] = clock]
            /\ UNCHANGED <<exit, err>>
    /\ UNCHANGED <<variant, clock, fs, runs, arg, fs0, loaded, state, entry,
                   creds, out, path>>

\* printStatus(thisStatus.Status); state.Revisions[rev] = thisStatus
PrintStatus(p) ==
    /\ pc[p] = "print"
    /\ out' = [out EXCEPT ![p] =
                  Append(out[p], printStatus(variant, thisStatus[p].Status))]
    /\ state' = [state EXCEPT ![p] = Put(state[p], arg[p].rev, thisStatus[p])]
    /\ pc' = [pc EXCEPT ![p] = "create"]
    /\ UNCHANGED <<env, arg, fs0, loaded, entry, ident, creds, token, statuses,
                   thisStatus, queries, exit, err, path>>

\* saveState / storeCache, first half: the file is created or truncated
SaveCreate(p) ==
    /\ pc[p] = "create"
    /\ LET c == saveCreate(variant, fs)
       IN  /\ fs' = c.fs
           /\ IF c.died THEN Die(p, "create")
              ELSE /\ pc' = [pc EXCEPT ![p] = "encode"]
                   /\ UNCHANGED <<exit, err>>
    /\ UNCHANGED <<variant, clock, runs, lookedUpAt, locals, queries, out, path>>

\* saveState / storeCache, second half: the state is encoded into the file,
\* and main returns
SaveEncode(p) ==
    /\ pc[p] = "encode"
    /\ fs' = saveEncode(fs, state[p])
    /\ exit' = [exit EXCEPT ![p] = 0]
    /\ pc' = [pc EXCEPT ![p] = "done"]
    /\ UNCHANGED <<variant, clock, runs, lookedUpAt, locals, queries, out, err,
                   path>>

\* Time passes.  The program reads the clock at the validity check and when
\* it stamps the new entry; the clock moves to a later observed instant while
\* an invocation is about to read it.
Tick ==
    /\ \E p \in Procs : pc[p] = "check"
    /\ \E t \in TimePoints : t > clock /\ clock' = t
    /\ UNCHANGED <<variant, fs, runs, lookedUpAt, pc, locals, observed>>

\* one shell: its invocations run one after the other
Shell == {"p1"}

Next ==
    \/ Tick
    \/ \E p \in Shell : TargetRevision(p)
    \/ \E p \in Shell : RestoreState(p)
    \/ \E p \in Shell : CheckCache(p)
    \/ \E p \in Shell : ParseRemote(p)
    \/ \E p \in Shell : RetrieveAPIToken(p)
    \/ \E p \in Shell : ListStatuses(p)
    \/ \E p \in Shell : PrintStatus(p)
    \/ \E p \in Shell : SaveCreate(p)
    \/ \E p \in Shell : SaveEncode(p)

Spec == Init /\ [][Next]_vars

\* ---------------------------------------------- the validity check alone
\* The program just after restoreState, for every entry it can have loaded
\* for revision abc123 (stamped at second 0..MaxStamp, or absent) and every
\* tick of the clock from the stamp to the horizon: the states from which
\* CheckCache applies the validity check.
CheckedRev == "abc123"
CheckStates ==
    {ZeroState} \cup
    {Put(ZeroState, CheckedRev, revisionEntry(s, t)) :
        s \in Statuses, t \in 0..MaxStamp}

InitCheck ==
    /\ variant \in Variants
    /\ clock \in 0..(MaxSeconds * SubSec)
    /\ runs = 1
    /\ lookedUpAt = [r \in Revs |-> -1]
    /\ \E st \in CheckStates, c \in BOOLEAN, u \in BOOLEAN :
        /\ Lookup(st, CheckedRev).LastModified * SubSec <= clock
        /\ fs = Fs("file", IF st = ZeroState THEN EmptyDoc ELSE Encode(st))
        /\ arg = [p \in Procs |-> IF p \in Shell THEN Arg(c, u, CheckedRev)
                                   ELSE Arg(FALSE, FALSE, "")]
        /\ loaded = [p \in Procs |-> IF p \in Shell THEN st ELSE ZeroState]
        /\ state = loaded
        /\ entry = [p \in Procs |-> Lookup(loaded[p], CheckedRev)]
    /\ pc = [p \in Procs |-> IF p \in Shell THEN "check" ELSE "idle"]
    /\ fs0 = [p \in Procs |-> fs]
    /\ ident = [p \in Procs |-> NoIdent]
    /\ creds = [p \in Procs |-> NoCreds]
    /\ token = [p \in Procs |-> ""]
    /\ statuses = [p \in Procs |-> <<>>]
    /\ thisStatus = [p \in Procs |-> ZeroEntry]
    /\ queries = [p \in Procs |-> 0]
    /\ out = [p \in Procs |-> <<>>]
    /\ exit = [p \in Procs |-> -1]
    /\ err = [p \in Procs |-> ""]
    /\ path = [p \in Procs |-> "none"]

NextCheck == \E p \in Shell : CheckCache(p)

SpecCheck == InitCheck /\ [][NextCheck]_vars

\* ------------------------------------------------- persistence alone
\* The cache files of the round trip: every document of at most two members
\* over the revisions, the statuses (recognised or not) and the stamps
\* 0..MaxStamp, in any order and with repeated keys, besides null, the empty
\* object, an empty file, a torn file and the paths that hold no file.
PersistMembers ==
    {Member(k, s, t) : k \in Revs, s \in Statuses, t \in 0..MaxStamp}
PersistTexts ==
    {Text(TRUE, <<>>), Text(FALSE, <<>>)}
    \cup {Text(FALSE, <<a>>) : a \in PersistMembers}
    \cup {Text(FALSE, <<a, b>>) : a \in PersistMembers, b \in PersistMembers}
PersistFs ==
    {Fs(k, EmptyDoc) : k \in {"nodir", "absent", "noperm", "file"}}
    \cup {Fs("file", TornDoc)}
    \cup {Fs("file", Doc("json", x)) : x \in PersistTexts}

InitPersist ==
    /\ variant \in Variants
    /\ clock = 0
    /\ fs \in PersistFs
    /\ runs = 1
    /\ lookedUpAt = [r \in Revs |-> -1]
    /\ pc = [p \in Procs |-> IF p \in Shell THEN "load" ELSE "idle"]
    /\ arg = [p \in Procs |-> IF p \in Shell THEN Arg(FALSE, FALSE, CheckedRev)
                               ELSE Arg(FALSE, FALSE, "")]
    /\ fs0 = [p \in Procs |-> fs]
    /\ loaded = [p \in Procs |-> ZeroState]
    /\ state = [p \in Procs |-> ZeroState]
    /\ entry = [p \in Procs |-> ZeroEntry]
    /\ ident = [p \in Procs |-> NoIdent]
    /\ creds = [p \in Procs |-> NoCreds]
    /\ token = [p \in Procs |-> ""]
    /\ statuses = [p \in Procs |-> <<>>]
    /\ thisStatus = [p \in Procs |-> ZeroEntry]
    /\ queries = [p \in Procs |-> 0]
    /\ out = [p \in Procs |-> <<>>]
    /\ exit = [p \in Procs |-> -1]
    /\ err = [p \in Procs |-> ""]
    /\ path = [p \in Procs |-> "none"]

\* saveState(state) / storeCache(cache) as one call, on the state as loaded
SaveState(p) ==
    /\ pc[p] = "check"
    /\ LET c == saveCreate(variant, fs)
       IN  IF c.died
           THEN /\ fs' = c.fs
                /\ Die(p, "create")
           ELSE /\ fs' = saveEncode(c.fs, state[p])
                /\ pc' = [pc EXCEPT ![p] = "reload"]
                /\ UNCHANGED <<exit, err>>
    /\ UNCHANGED <<variant, clock, runs, lookedUpAt, locals, queries, out, path>>

\* restoreState() / restoreCache() once more, on what was saved
Reload(p) ==
    /\ pc[p] = "reload"
    /\ LET l == restore(variant, fs)
       IN  /\ fs' = l.fs
           /\ IF l.died
              THEN /\ Die(p, "open")
                   /\ UNCHANGED <<state, entry>>
              ELSE /\ state' = [state EXCEPT ![p] = l.state]
                   /\ entry' = [entry EXCEPT ![p] = Lookup(l.state, arg[p].rev)]
                   /\ pc' = [pc EXCEPT ![p] = "done"]
                   /\ exit' = [exit EXCEPT ![p] = 0]
                   /\ UNCHANGED err
    /\ UNCHANGED <<variant, clock, runs, lookedUpAt, arg, fs0, loaded, ident,
                   creds, token, statuses, thisStatus, queries, out, path>>

NextPersist ==
    \/ \E p \in Shell : RestoreState(p)
    \/ \E p \in Shell : SaveState(p)
    \/ \E p \in Shell : Reload(p)

SpecPersist == InitPersist /\ [][NextPersist]_vars

\* ------------------------------------------------- two shells at once
\* Two invocations with --update, one for each revision, started by two
\* shells in the same repository before either has loaded the cache; their
\* steps interleave freely.  There is no lock on the cache file.
RaceFs ==
    {Fs("absent", EmptyDoc), Fs("file", EmptyDoc)}
    \cup {Fs("file", Encode(Put(ZeroState, r, revisionEntry(statusPending, 0)))) :
            r \in Revs}

InitRace ==
    /\ variant \in Variants
    /\ clock = 0
    /\ fs \in RaceFs
    /\ runs = Cardinality(Procs)
    /\ lookedUpAt = [r \in Revs |-> -1]
    /\ pc = [p \in Procs |-> "load"]
    /\ arg = [p \in Procs |-> Arg(FALSE, TRUE,
                                   IF p \in Shell THEN "abc123" ELSE "def456")]
    /\ fs0 = [p \in Procs |-> fs]
    /\ loaded = [p \in Procs |-> ZeroState]
    /\ state = [p \in Procs |-> ZeroState]
    /\ entry = [p \in Procs |-> ZeroEntry]
    /\ ident = [p \in Procs |-> NoIdent]
    /\ creds = [p \in Procs |-> NoCreds]
    /\ token = [p \in Procs |-> ""]
    /\ statuses = [p \in Procs |-> <<>>]
    /\ thisStatus = [p \in Procs |-> ZeroEntry]
    /\ queries = [p \in Procs |-> 0]
    /\ out = [p \in Procs |-> <<>>]
    /\ exit = [p \in Procs |-> -1]
    /\ err = [p \in Procs |-> ""]
    /\ path = [p \in Procs |-> "none"]

NextRace ==
    \/ \E p \in Procs : RestoreState(p)
    \/ \E p \in Procs : CheckCache(p)
    \/ \E p \in Procs : ParseRemote(p)
    \/ \E p \in Procs : RetrieveAPIToken(p)
    \/ \E p \in Procs : ListStatuses(p)
    \/ \E p \in Procs : PrintStatus(p)
    \/ \E p \in Procs : SaveCreate(p)
    \/ \E p \in Procs : SaveEncode(p)

SpecRace == InitRace /\ [][NextRace]_vars

\* ------------------------------------------------------------- claims
Done(p) == pc[p] = "done"
\* the invocation has resolved its revision and loaded the cache
AfterLoad(p) == pc[p] \notin {"idle", "load"} /\ arg[p].rev # "" /\ err[p] # "open"
\* the invocation has chosen its path
AfterCheck(p) == path[p] # "none"
\* the invocation has chosen its path and done nothing since, or has ended
\* on the cache-hit path
JustChecked(p) == pc[p] = "remote" \/ (Done(p) /\ path[p] = "hit")
\* the entry the cache path held for revision r when invocation p started
Persisted(p, r) ==
    IF fs0[p].kind = "file" THEN Lookup(Decode(fs0[p].doc), r) ELSE ZeroEntry
HasPersisted(p, r) ==
    fs0[p].kind = "file" /\ r \in DOMAIN Decode(fs0[p].doc).Revisions
\* the bytes of the cache file, none when there is no file
Content(f) == IF f.kind = "file" THEN f.doc ELSE EmptyDoc
\* the glyph of each recognised status
MarkOf(status) ==
    CASE status = "failure" -> markFailure
      [] status = "pending" -> markPending
      [] status = "success" -> markSuccess
      [] OTHER -> markUnknown
Horizon == MaxSeconds * SubSec

\* C1: once the persisted entry of a revision is "success" or "failure", an
\* invocation for that revision without --update makes no remote query,
\* never takes the cache-miss path, leaves the cache path as it found it, and
\* ends with exit code 0 on the cache-hit path having printed the glyph of
\* the cached status, whatever the clock shows.
C1_FinalStatusIsNeverRequeried ==
    \A p \in Procs :
        ( /\ pc[p] # "idle"
          /\ arg[p].rev # ""
          /\ ~arg[p].update
          /\ HasPersisted(p, arg[p].rev)
          /\ Persisted(p, arg[p].rev).Status \in {"success", "failure"} )
        => /\ queries[p] = 0
           /\ path[p] # "miss"
           /\ fs = fs0[p]
           /\ AfterLoad(p) => entry[p] = Persisted(p, arg[p].rev)
           /\ pc[p] \in {"load", "check", "done"}
           /\ Done(p) =>
                /\ exit[p] = 0
                /\ path[p] = "hit"
                /\ Len(out[p]) = 1
                /\ out[p][1].mark = MarkOf(Persisted(p, arg[p].rev).Status)

\* C1 witness: the second invocation of the session ends on the cache-hit
\* path at the horizon, on a "success" entry that the first one stamped at
\* second 0.
C1_Witness ==
    \E p \in Procs :
        /\ Done(p) /\ path[p] = "hit" /\ ~arg[p].update /\ ~arg[p].cached
        /\ runs = 2
        /\ clock = Horizon
        /\ lookedUpAt[arg[p].rev] \in {0, 1}
        /\ entry[p] = revisionEntry("success", 0)
        /\ out[p] = <<Glyph(markSuccess, "Green")>>

\* C2: for an entry whose status is "failure" or "success" the validity check
\* is true at every time from lastModified on: without --update and without
\* --cached the invocation takes the cache-hit path at every tick up to the
\* horizon.
C2_FinalStatusIsValidForever ==
    \A p \in Procs :
        ( /\ AfterCheck(p)
          /\ ~arg[p].update /\ ~arg[p].cached
          /\ entry[p].Status \in {"failure", "success"}
          /\ clock >= entry[p].LastModified * SubSec )
        => path[p] = "hit" /\ Done(p) /\ exit[p] = 0

\* C2 witness: a "failure" entry stamped at second MaxStamp is used at the
\* horizon.
C2_Witness ==
    \E p \in Procs :
        /\ path[p] = "hit" /\ ~arg[p].update /\ ~arg[p].cached
        /\ entry[p] = revisionEntry("failure", MaxStamp)
        /\ clock = Horizon

\* C3: for an entry with status "pending" the validity check is true exactly
\* when now < lastModified + 10 seconds: without --update and without
\* --cached the invocation takes the cache-hit path before that instant and
\* the cache-miss path at that instant and after it.
C3_PendingIsValidForTenSeconds ==
    \A p \in Procs :
        ( /\ AfterCheck(p)
          /\ ~arg[p].update /\ ~arg[p].cached
          /\ entry[p].Status = "pending" )
        => (path[p] = "hit" <=> clock < (entry[p].LastModified + 10) * SubSec)

\* C3 witness: a "pending" entry stamped at second 1 is refused at exactly
\* second 11.
C3_Witness ==
    \E p \in Procs :
        /\ path[p] = "miss" /\ ~arg[p].update /\ ~arg[p].cached
        /\ entry[p] = revisionEntry("pending", 1)
        /\ clock = 11 * SubSec

\* C4 as stated: for an entry with status "" (recorded, or the zero entry of
\* an absent revision) the validity check is true exactly when
\* now < lastModified + 30 seconds, and an invocation (without --update) made
\* less than 30 seconds after the live lookup that recorded the "" entry
\* takes the cache-hit path and makes no remote query.
C4_UnknownIsValidThirtySecondsAfterLookup ==
    \A p \in Procs :
        (JustChecked(p) /\ ~arg[p].update /\ entry[p].Status = "")
        => /\ ~arg[p].cached =>
                (path[p] = "hit" <=> clock < (entry[p].LastModified + 30) * SubSec)
           /\ ( /\ HasPersisted(p, arg[p].rev)
                /\ lookedUpAt[arg[p].rev] >= 0
                /\ entry[p].LastModified = lookedUpAt[arg[p].rev] \div SubSec
                /\ clock - lookedUpAt[arg[p].rev] < 30 * SubSec )
              => path[p] = "hit" /\ queries[p] = 0

\* C4 amended: the same law, and an invocation without --update made less
\* than 30 seconds after the lastModified that the live lookup recorded (the
\* time of the lookup truncated to whole seconds) takes the cache-hit path
\* and makes no remote query.
C4_UnknownIsValidThirtySecondsAfterStamp ==
    \A p \in Procs :
        (JustChecked(p) /\ ~arg[p].update /\ entry[p].Status = "")
        => /\ ~arg[p].cached =>
                (path[p] = "hit" <=> clock < (entry[p].LastModified + 30) * SubSec)
           /\ ( /\ HasPersisted(p, arg[p].rev)
                /\ lookedUpAt[arg[p].rev] >= 0
                /\ entry[p].LastModified = lookedUpAt[arg[p].rev] \div SubSec
                /\ clock < ((lookedUpAt[arg[p].rev] \div SubSec) + 30) * SubSec )
              => path[p] = "hit" /\ queries[p] = 0

\* C4 witness: a lookup one tick after second 0 recorded "", and an
\* invocation one tick before second 30 uses the entry.
C4_Witness ==
    \E p \in Procs :
        /\ Done(p) /\ path[p] = "hit" /\ ~arg[p].update /\ ~arg[p].cached
        /\ HasPersisted(p, arg[p].rev)
        /\ entry[p] = revisionEntry("", 0)
        /\ lookedUpAt[arg[p].rev] = 1
        /\ clock = 30 * SubSec - 1
        /\ queries[p] = 0

\* C5: on the cache-hit path the invocation makes no remote query, does not
\* change the loaded state, leaves the cache path exactly as it found it
\* (nothing created, truncated or written), and ends with exit code 0.
C5_HitPathTouchesNothing ==
    \A p \in Procs :
        path[p] = "hit"
        => /\ queries[p] = 0
           /\ state[p] = loaded[p]
           /\ fs = fs0[p]
           /\ Done(p) /\ exit[p] = 0

\* C6: with --update (with or without --cached, whatever the cached entry)
\* the invocation never takes the cache-hit path; once it has loaded the
\* cache it is on the cache-miss path, and when it ends with exit code 0 it
\* has made one remote query and the revision's entry in the file is the
\* result of that query.
C6_UpdateForcesLookup ==
    \A p \in Procs :
        (pc[p] # "idle" /\ arg[p].rev # "" /\ arg[p].update)
        => /\ path[p] # "hit"
           /\ (AfterLoad(p) /\ pc[p] # "check") => path[p] = "miss"
           /\ (Done(p) /\ exit[p] = 0) =>
                /\ queries[p] = 1
                /\ fs.kind = "file" /\ fs.doc.t = "json"
                /\ arg[p].rev \in DOMAIN Decode(fs.doc).Revisions
                /\ Decode(fs.doc).Revisions[arg[p].rev] =
                      [Status |-> IF statuses[p] = <<>> THEN "" ELSE statuses[p][1],
                       LastModified |-> clock \div SubSec]

\* C6 witness: --update and --cached on a "pending" entry inside its ten
\* seconds; the lookup is made and "success" overwrites the entry.
C6_Witness ==
    \E p \in Procs :
        /\ Done(p) /\ exit[p] = 0 /\ arg[p].update /\ arg[p].cached
        /\ entry[p] = revisionEntry("pending", 0)
        /\ clock < 10 * SubSec
        /\ queries[p] = 1
        /\ Lookup(Decode(fs.doc), arg[p].rev).Status = "success"

\* C7: with --cached and without --update an invocation that has loaded the
\* cache never takes the cache-miss path, makes no remote query, writes
\* nothing into the cache file, and ends with exit code 0 having printed the
\* glyph of the entry cached for the revision (the unknown glyph if there is
\* none), whatever the age of the entry.
C7_CachedForcesHit ==
    \A p \in Procs :
        (pc[p] # "idle" /\ arg[p].rev # "" /\ arg[p].cached /\ ~arg[p].update)
        => /\ path[p] # "miss"
           /\ queries[p] = 0
           /\ Content(fs) = Content(fs0[p])
           /\ pc[p] \in {"load", "check", "done"}
           /\ (Done(p) /\ err[p] # "open") =>
                /\ path[p] = "hit"
                /\ exit[p] = 0
                /\ Len(out[p]) = 1
                /\ out[p][1].mark = MarkOf(Persisted(p, arg[p].rev).Status)

\* C7 witness: --cached on a "pending" entry stamped at second 0, used at the
\* horizon.
C7_Witness ==
    \E p \in Procs :
        /\ Done(p) /\ path[p] = "hit" /\ arg[p].cached /\ ~arg[p].update
        /\ entry[p] = revisionEntry("pending", 0)
        /\ clock = Horizon
        /\ out[p][1].mark = markPending

\* C8: an invocation that finds a cache file whose content is not a complete
\* JSON document (empty, or cut short) loads the empty state and goes on; it
\* never dies in loading.
C8_CorruptFileLoadsEmpty ==
    \A p \in Procs :
        ( /\ pc[p] # "idle" /\ arg[p].rev # ""
          /\ fs0[p].kind = "file" /\ fs0[p].doc.t \in {"empty", "torn"} )
        => /\ err[p] # "open"
           /\ pc[p] # "load" =>
                /\ loaded[p] = ZeroState
                /\ entry[p] = ZeroEntry
                /\ AfterLoad(p)

\* C8 witness: an invocation that found a torn file has gone through the
\* cache-miss path and ended with exit code 0.
C8_Witness ==
    \E p \in Procs :
        /\ Done(p) /\ exit[p] = 0 /\ path[p] = "miss"
        /\ fs0[p] = Fs("file", TornDoc)
        /\ loaded[p] = ZeroState

\* the load of invocation p has returned or died
LoadOver(p) == pc[p] \notin {"idle", "load"} /\ arg[p].rev # ""
\* the load of invocation p died
LoadDied(p) == Done(p) /\ exit[p] = 1 /\ err[p] = "open"

\* C9 as stated: restoreState returns the empty state if the cache file does
\* not exist, and dies on any other read error and on a parse error.
C9_LoadDiesOnParseError ==
    \A p \in Procs :
        (variant = "part001" /\ LoadOver(p))
        => /\ fs0[p].kind \in {"nodir", "absent"} =>
                ~LoadDied(p) /\ loaded[p] = ZeroState
           /\ fs0[p].kind = "noperm" => LoadDied(p)
           /\ (fs0[p].kind = "file" /\ fs0[p].doc.t # "json") => LoadDied(p)

\* C9 amended: restoreState returns the empty state if the cache file does
\* not exist or its content cannot be parsed, and dies on any other error of
\* opening the file.
C9_LoadDiesOnOpenErrorOnly ==
    \A p \in Procs :
        (variant = "part001" /\ LoadOver(p))
        => /\ fs0[p].kind \in {"nodir", "absent"} =>
                ~LoadDied(p) /\ loaded[p] = ZeroState
           /\ fs0[p].kind = "noperm" => LoadDied(p)
           /\ (fs0[p].kind = "file" /\ fs0[p].doc.t # "json") =>
                ~LoadDied(p) /\ loaded[p] = ZeroState

\* C9 witness: restoreState has died on a file it could not open.
C9_Witness ==
    \E p \in Procs :
        variant = "part001" /\ LoadDied(p) /\ fs0[p].kind = "noperm"

\* C10: when an invocation ends the cache-miss path without dying, its exit
\* code is 0 and the file holds the mapping it loaded with exactly the entry
\* of its revision replaced by {the state of the first record returned, or ""
\* for an empty list; the current time in seconds}.
C10_MissReplacesOneEntry ==
    \A p \in Procs :
        (Done(p) /\ path[p] = "miss" /\ err[p] = "")
        => /\ exit[p] = 0
           /\ queries[p] = 1
           /\ fs.kind = "file" /\ fs.doc.t = "json"
           /\ LET new == Decode(fs.doc).Revisions
                  old == loaded[p].Revisions
                  rev == arg[p].rev
              IN  /\ DOMAIN new = DOMAIN old \cup {rev}
                  /\ new[rev] =
                        [Status |-> IF statuses[p] = <<>> THEN "" ELSE statuses[p][1],
                         LastModified |-> clock \div SubSec]
                  /\ \A r \in DOMAIN old \ {rev} : new[r] = old[r]

\* C10 witness: the file held an entry for abc123; a lookup for def456 that
\* returned two records has added the state of the first and kept abc123's.
C10_Witness ==
    \E p \in Procs :
        /\ Done(p) /\ path[p] = "miss" /\ exit[p] = 0
        /\ arg[p].rev = "def456"
        /\ statuses[p] = <<"success", "pending">>
        /\ DOMAIN loaded[p].Revisions = {"abc123"}
        /\ Decode(fs.doc).Revisions["def456"].Status = "success"
        /\ Decode(fs.doc).Revisions["abc123"] = loaded[p].Revisions["abc123"]

\* C11: persistence round trip.  For every state m that loading returns (the
\* empty state, entries with statuses that are not recognised, documents whose
\* members are out of order or repeated), saving m and loading again returns
\* a state equal to m, and the file then holds the encoding of m.
C11_SaveThenLoadIsIdentity ==
    \A p \in Procs :
        (pc[p] \in {"reload", "done"} /\ err[p] = "")
        => /\ fs = Fs("file", Encode(loaded[p]))
           /\ Decode(fs.doc) = loaded[p]
           /\ Done(p) => state[p] = loaded[p]

\* C11 witness: a file whose two members stood in the reverse of the sorted
\* order, one with a status that is not recognised, has been loaded, saved and
\* loaded again.
C11_Witness ==
    \E p \in Procs :
        /\ Done(p) /\ err[p] = ""
        /\ fs0[p] = Fs("file", Doc("json",
                        Text(FALSE, <<Member("def456", "error", MaxStamp),
                                      Member("abc123", "", 0)>>)))
        /\ fs # fs0[p]
        /\ state[p].Revisions["def456"] = revisionEntry("error", MaxStamp)
        /\ state[p] = loaded[p]

\* C12: a cached entry whose status is none of "", "failure", "pending",
\* "success" falls under the unknown policy: without --cached and --update
\* the invocation takes the cache-hit path if and only if now is before
\* lastModified + 30 seconds, and on the cache-hit path it prints the unknown
\* glyph.
C12_UnrecognisedStatusIsUnknown ==
    \A p \in Procs :
        ( /\ AfterCheck(p)
          /\ ~arg[p].update /\ ~arg[p].cached
          /\ entry[p].Status \notin KnownStatuses )
        => /\ path[p] = "hit"
                <=> clock < (entry[p].LastModified + cacheForUnknown) * SubSec
           /\ path[p] = "hit" => out[p] = <<Glyph(markUnknown, "None")>>

\* no source yields a token for this host: the environment variable is
\* empty, ~/.netrc is missing or has no machine entry of the API host, and
\* the git configuration has no github.token or an empty one
NoSourceYields(c, host) ==
    /\ c.env = ""
    /\ netrcToken(c.netrc, host) = ""
    /\ ~c.config.found \/ c.config.value = ""

\* C13: when the environment variable, the netrc file and the git
\* configuration all yield no token, credential resolution returns the empty
\* string and the invocation goes on to the remote query without a token; it
\* does not die.
C13_NoTokenIsNotFatal ==
    [][\A p \in Procs :
        (pc[p] = "token" /\ pc'[p] # "token"
            /\ NoSourceYields(creds[p], ident[p].host))
        => /\ pc'[p] = "query"
           /\ token'[p] = ""
           /\ exit'[p] = -1]_vars

\* the token the three sources yield for a host, tried in the order
\* environment variable, netrc machine entry of the API host (api.github.com
\* for github.com; never the "default" entry), git configuration
FirstNonEmpty(c, host) ==
    LET machine == IF host = "github.com" THEN "api.github.com" ELSE host
        fromNetrc == IF c.netrc.exists /\ machine \in DOMAIN c.netrc.machines
                     THEN c.netrc.machines[machine] ELSE ""
    IN  IF c.env # "" THEN c.env
        ELSE IF fromNetrc # "" THEN fromNetrc
        ELSE c.config.value

\* C14: retrieveAPIToken (part_000, part_001) tries the environment variable,
\* then the netrc machine entry, then the git configuration, and returns the
\* first non-empty value: when the environment variable or the netrc entry
\* yields a token the git configuration is not run (its failure cannot end
\* the invocation), a "default" netrc entry supplies nothing, and for host
\* github.com the netrc machine is api.github.com.
C14_FirstNonEmptySourceWins ==
    [][\A p \in Procs :
        (variant # "main" /\ pc[p] = "token" /\ pc'[p] # "token")
        => /\ pc'[p] = "query" => token'[p] = FirstNonEmpty(creds[p], ident[p].host)
           /\ (creds[p].env # "" \/ creds[p].config.found
                 \/ FirstNonEmpty(creds[p], ident[p].host) # "")
                => pc'[p] = "query"]_vars

\* C14 witness: for host github.com the token of the netrc machine
\* api.github.com has been returned.
C14_Witness ==
    \E p \in Procs :
        /\ variant = "part001"
        /\ pc[p] = "query"
        /\ ident[p].host = "github.com"
        /\ token[p] = "netrctok"

\* C15: identity resolution succeeds only with an owner and a repo: an
\* invocation that has got past the parsing of the remote URL, and so goes on
\* to the token and the remote query, holds a non-empty owner and a non-empty
\* repo; for a remote URL with fewer than two non-empty path segments it has
\* died before, without a query.
C15_IdentityHasOwnerAndRepo ==
    \A p \in Procs :
        /\ pc[p] \in {"token", "query"}
                => ident[p].user # "" /\ ident[p].repo # ""
        /\ err[p] \in {"url", "parts"} => queries[p] = 0 /\ exit[p] = 1

\* C16: the entry an invocation writes into the cache file on the cache-miss
\* path has a status that is one of "", "failure", "pending", "success",
\* whatever states the remote API returned.
C16_WrittenStatusIsRecognised ==
    \A p \in Procs :
        (Done(p) /\ path[p] = "miss" /\ exit[p] = 0)
        => Lookup(Decode(fs.doc), arg[p].rev).Status \in KnownStatuses

\* C17: an invocation whose remote query fails ends with a non-zero exit
\* code on the cache-miss path after exactly one query, has printed no glyph,
\* and leaves the content of the cache file as it was when it started.
C17_FailedQueryChangesNothing ==
    \A p \in Procs :
        err[p] = "fetch"
        => /\ Done(p) /\ path[p] = "miss"
           /\ exit[p] = 1
           /\ queries[p] = 1
           /\ out[p] = <<>>
           /\ Content(fs) = Content(fs0[p])

\* C17 witness: the query of an invocation with --update has failed over a
\* cache file that holds an entry for the revision.
C17_Witness ==
    \E p \in Procs :
        /\ err[p] = "fetch" /\ Done(p)
        /\ arg[p].update
        /\ HasPersisted(p, arg[p].rev)
        /\ fs.kind = "file" /\ Lookup(Decode(fs.doc), arg[p].rev).Status = "success"

\* C18: on the cache-miss path the glyph is printed last, after the save has
\* succeeded: an invocation on that path that has printed a glyph has ended
\* with exit code 0 and the file holds its state, so that an invocation that
\* fails while persisting has printed nothing.
C18_GlyphOnlyAfterSave ==
    \A p \in Procs :
        (path[p] = "miss" /\ out[p] # <<>>)
        => /\ Done(p) /\ exit[p] = 0
           /\ fs = Fs("file", Encode(state[p]))

\* C19: the last writer wins.  Whenever an invocation completes its save,
\* whatever the other invocation has done to the file in between, a load of
\* the file returns exactly the state that this invocation loaded with the
\* entry of its own revision replaced: an entry of the other revision that
\* was not in its snapshot is not in the file.
C19_LastWriterWins ==
    [][\A p \in Procs :
        (pc[p] = "encode" /\ pc'[p] = "done")
        => /\ fs'.kind = "file"
           /\ Decode(fs'.doc) = Put(loaded[p], arg[p].rev, thisStatus[p])
           /\ \A q \in Procs \ {p} :
                arg[q].rev \notin DOMAIN loaded[p].Revisions
                    => arg[q].rev \notin DOMAIN Decode(fs'.doc).Revisions]_vars

\* C19 witness: both invocations have saved over a file that was empty; the
\* one for def456 saved last, from a snapshot taken before the other saved,
\* and the entry for abc123 that the other one saved is gone from the file.
C19_Witness ==
    /\ \A p \in Procs : Done(p) /\ exit[p] = 0
    /\ \A p \in Procs : loaded[p] = ZeroState
    /\ \E p \in Procs :
        /\ arg[p].rev = "def456"
        /\ DOMAIN Decode(fs.doc).Revisions = {"def456"}
        /\ Decode(fs.doc) = state[p]
        /\ \E q \in Procs \ {p} :
            /\ "abc123" \in DOMAIN state[q].Revisions
            /\ state[q].Revisions["abc123"].Status = "success"

====
